---- MODULE Spec2Model ----
(***************************************************************************)
(* File transfer router of task-manager-api (src/app/routers/files.py).    *)
(*                                                                         *)
(* The handlers are "async def" bodies without any await: on the event     *)
(* loop one handler body runs from entry to return (or raise) before the   *)
(* next one starts.  The model keeps one running handler (pc, req) and     *)
(* shows its statements as steps.  A FileResponse is only constructed by   *)
(* download_file; the file is opened and sent after the handler returned,  *)
(* so other handlers run between the checksum test and the send.           *)
(***************************************************************************)
EXTENDS Integers, FiniteSets, Sequences, TLC

\* ---- bounds of the model ------------------------------------------------
MaxId == 2             \* rows the table ever receives
TicksPerSecond == 2    \* clock resolution below one second
MaxPending == 1        \* FileResponses waiting to be sent

\* the clock runs through one whole second and into the next
MaxClock == TicksPerSecond

\* ---- program constants ----------------------------------------------------
MAX_FILE_SIZE == 100 * 1024 * 1024

UPLOAD_DIR == "uploads"

\* ---- input domains ----------------------------------------------------------
FileNames == {"a.txt"}

Seeds == {1, 2}

\* a byte string, abstracted to its length and which content of that length
EmptyBytes == [size |-> 0, seed |-> 0]

Bytes(n, s) == IF n = 0 THEN EmptyBytes ELSE [size |-> n, seed |-> s]

SmallSize == 2

\* small bodies of every content, and one body at and one above the ceiling
Bodies ==
    {Bytes(SmallSize, s) : s \in Seeds}
        \cup {Bytes(MAX_FILE_SIZE, 1), Bytes(MAX_FILE_SIZE + 1, 1)}

\* the first k bytes of b
Prefix(b, k) == IF k >= b.size THEN b ELSE Bytes(k, b.seed)

\* the ids a request may name: those the sequence gives out, which have no row
\* before they are given out and after their row is deleted
Ids == 1..MaxId

VARIABLES
    files,      \* the upload root: path -> bytes, for the paths that exist
    records,    \* the FileTransfer table: set of rows
    nextId,     \* next value of the id sequence
    clock,      \* datetime.now(), in ticks
    pc,         \* statement the running handler is at, "idle" when none runs
    req,        \* locals of the running handler: name -> value, bound names only
    result,     \* the last response, NoResult while a handler runs
    pending,    \* FileResponses returned by download_file and not yet sent
    origin,     \* history: id of a live row -> body of the upload that returned it
    pc2,        \* statement the handler of the other worker process is at
    req2,       \* locals of the handler of the other worker process
    reverified  \* history: the last response repeats the verify answered before it

vars ==
    <<files, records, nextId, clock, pc, req, result, pending, origin, pc2, req2,
      reverified>>

\* ---- filesystem -------------------------------------------------------------
Exists(fs, p) == p \in DOMAIN fs

WriteFile(fs, p, b) == [q \in DOMAIN fs \cup {p} |-> IF q = p THEN b ELSE fs[q]]

Unlink(fs, p) == [q \in DOMAIN fs \ {p} |-> fs[q]]

\* SHA-256 hex digest of the bytes at a path; collision free on the model's bytes
Sha256(b) == b.seed * 268435456 + b.size + 1

calculate_checksum_first_byte(fs, p) == Sha256(Prefix(fs[p], 1))

\* reads the file in blocks of 4096 bytes into the hash: the digest of all bytes
calculate_checksum(fs, p) == Sha256(fs[p])

\* ---- storage names ----------------------------------------------------------
\* datetime.now().strftime("%Y%m%d_%H%M%S"): the clock cut to whole seconds
Timestamp(t) == t \div TicksPerSecond

SafeFilename(t, filename) == [ts |-> Timestamp(t), name |-> filename]

FilePath(safe_filename) == [dir |-> UPLOAD_DIR, stored |-> safe_filename]

\* ---- record store -----------------------------------------------------------
HasRecord(rs, id) == \E r \in rs : r.id = id

\* db.query(FileTransfer).filter(FileTransfer.id == file_id).first()
QueryFirst(rs, id) == CHOOSE r \in rs : r.id = id

\* the id the database gives the next row: ids are unique and never given twice
NextVal(n) == n + 1

\* db.delete(file_record); db.commit()
DeleteRow_uncommitted(rs, id) == rs

DeleteRow(rs, id) == {r \in rs : r.id # id}

\* the row built by upload_file; upload_date is kept to the second
FileTransfer(id, filename, safe_filename, file_path, file_size, checksum, date) ==
    [id |-> id, filename |-> filename, stored_filename |-> safe_filename,
     file_path |-> file_path, file_size |-> file_size, checksum |-> checksum,
     upload_date |-> date, status |-> "completed"]

\* ---- responses --------------------------------------------------------------
\* a response: status, error class and detail, and what it carries. intact0 and
\* file_existed are history: what held when the handler was entered.
NoResult ==
    [op |-> "none", file_id |-> 0, status |-> 0, error |-> "", detail |-> "",
     body |-> {}, path |-> {}, record |-> {}, is_valid |-> FALSE,
     stored_checksum |-> 0, current_checksum |-> 0, intact0 |-> FALSE,
     file_existed |-> FALSE, bytes |-> {}, skip |-> 0, limit |-> 0, rows |-> << >>]

\* raise HTTPException(status_code, detail)
HTTPError(op, id, status, detail) ==
    [NoResult EXCEPT !.op = op, !.file_id = id, !.status = status,
                     !.error = "HTTPException", !.detail = detail]

\* section 3 of the spec: every row has a file with the row's checksum
Intact(rs, fs) ==
    \A r \in rs : Exists(fs, r.file_path) /\ calculate_checksum(fs, r.file_path) = r.checksum

Init ==
    /\ files = << >>
    /\ records = {}
    /\ nextId = 1
    /\ clock = 0
    /\ pc = "idle"
    /\ req = << >>
    /\ result = NoResult
    /\ pending = {}
    /\ origin = << >>
    /\ pc2 = "idle"
    /\ req2 = << >>
    /\ reverified = FALSE

\* rows that the handler of the other worker process may still insert
InFlight == IF pc2 = "idle" THEN 0 ELSE 1

\* time passes; the clock is read by upload_file only, when it names the file
\* and when it builds the row, so ticks at other statements, and ticks when no
\* upload can begin any more, change nothing
Tick ==
    /\ clock < MaxClock
    /\ \/ pc = "idle" /\ nextId + InFlight <= MaxId
       \/ pc = "persist"
    /\ clock' = clock + 1
    /\ UNCHANGED <<files, records, nextId, pc, req, result, pending, origin,
                  pc2, req2, reverified>>

\* ---- locals of the running handler --------------------------------------------
Bound(name) == name \in DOMAIN req

Bind(r, name, value) == (name :> value) @@ r

\* ---- upload_file ----------------------------------------------------------------
TooLarge_ge(file_size) == file_size >= MAX_FILE_SIZE

TooLarge(file_size) == file_size > MAX_FILE_SIZE

\* lengths a copy that breaks off may leave behind
PartialLens(b) == {0, b.size \div 2}

\* POST /files/upload arrives; the handler is entered (while the table, with
\* the upload in flight, has not received MaxId rows)
UploadBegin ==
    /\ pc = "idle"
    /\ nextId + InFlight <= MaxId
    /\ \E filename \in FileNames, body \in Bodies :
          req' = [op |-> "upload", filename |-> filename, body |-> body,
                  intact0 |-> Intact(records, files)]
    /\ pc' = "size_check"
    /\ result' = NoResult
    /\ reverified' = FALSE
    /\ UNCHANGED <<files, records, nextId, clock, pending, origin, pc2, req2>>

\* seek/tell, then the ceiling test
UploadSizeCheck ==
    /\ pc = "size_check"
    /\ LET file_size == req.body.size
       IN  IF TooLarge(file_size)
           THEN /\ req' = Bind(Bind(req, "file_size", file_size), "exc", "HTTPException(413)")
                /\ pc' = "except"
           ELSE /\ req' = Bind(req, "file_size", file_size)
                /\ pc' = "name"
    /\ UNCHANGED <<files, records, nextId, clock, result, pending, origin,
                  pc2, req2, reverified>>

\* timestamp, safe_filename, file_path
UploadName ==
    /\ pc = "name"
    /\ LET safe_filename == SafeFilename(clock, req.filename)
       IN  req' = Bind(Bind(req, "safe_filename", safe_filename),
                       "file_path", FilePath(safe_filename))
    /\ pc' = "write"
    /\ UNCHANGED <<files, records, nextId, clock, result, pending, origin,
                  pc2, req2, reverified>>

\* open(file_path, "wb") and shutil.copyfileobj
UploadWrite ==
    /\ pc = "write"
    /\ \/ /\ files' = WriteFile(files, req.file_path, req.body)
          /\ pc' = "digest"
          /\ req' = req
       \/ /\ files' = files
          /\ pc' = "except"
          /\ req' = Bind(req, "exc", "OSError(open)")
       \/ /\ \E k \in PartialLens(req.body) :
                /\ k < req.body.size
                /\ files' = WriteFile(files, req.file_path, Prefix(req.body, k))
          /\ pc' = "except"
          /\ req' = Bind(req, "exc", "OSError(write)")
    /\ UNCHANGED <<records, nextId, clock, result, pending, origin,
                  pc2, req2, reverified>>

\* checksum = calculate_checksum(str(file_path))
UploadDigest ==
    /\ pc = "digest"
    /\ \/ /\ Exists(files, req.file_path)
          /\ req' = Bind(req, "checksum", calculate_checksum(files, req.file_path))
          /\ pc' = "persist"
       \/ /\ req' = Bind(req, "exc", "OSError(read)")
          /\ pc' = "except"
    /\ UNCHANGED <<files, records, nextId, clock, result, pending, origin,
                  pc2, req2, reverified>>

\* FileTransfer(...), db.add, db.commit
UploadPersist ==
    /\ pc = "persist"
    /\ LET file_transfer ==
               FileTransfer(nextId, req.filename, req.safe_filename, req.file_path,
                            req.file_size, req.checksum, Timestamp(clock))
       IN  \/ /\ records' = records \cup {file_transfer}
              /\ nextId' = NextVal(nextId)
              /\ req' = Bind(req, "file_transfer", file_transfer)
              /\ pc' = "refresh"
           \/ /\ req' = Bind(req, "exc", "SQLAlchemyError(commit)")
              /\ pc' = "except"
              /\ UNCHANGED <<records, nextId>>
    /\ UNCHANGED <<files, clock, result, pending, origin,
                  pc2, req2, reverified>>

\* db.refresh(file_transfer); return file_transfer
UploadRefresh ==
    /\ pc = "refresh"
    /\ \/ /\ HasRecord(records, req.file_transfer.id)
          /\ result' = [NoResult EXCEPT !.op = "upload", !.status = 201,
                                        !.file_id = req.file_transfer.id,
                                        !.body = {req.body}, !.path = {req.file_path},
                                        !.record = {QueryFirst(records, req.file_transfer.id)},
                                        !.intact0 = req.intact0]
          /\ origin' = (req.file_transfer.id :> req.body) @@ origin
          /\ pc' = "idle"
          /\ req' = << >>
       \/ /\ req' = Bind(req, "exc", "SQLAlchemyError(refresh)")
          /\ pc' = "except"
          /\ UNCHANGED <<result, origin>>
    /\ UNCHANGED <<files, records, nextId, clock, pending,
                  pc2, req2, reverified>>

\* except Exception as e: unlink file_path if it exists, raise HTTPException(500)
UploadExcept ==
    /\ pc = "except"
    /\ IF ~Bound("file_path")
       THEN /\ files' = files
            /\ result' = [NoResult EXCEPT !.op = "upload", !.status = 500,
                                          !.error = "UnboundLocalError",
                                          !.detail = "Internal Server Error",
                                          !.body = {req.body}, !.intact0 = req.intact0]
       ELSE /\ files' = IF Exists(files, req.file_path)
                        THEN Unlink(files, req.file_path) ELSE files
            /\ result' = [HTTPError("upload", 0, 500, "Upload failed: " \o req.exc)
                            EXCEPT !.body = {req.body}, !.path = {req.file_path},
                                   !.record = IF Bound("file_transfer")
                                              THEN {req.file_transfer} ELSE {},
                                   !.intact0 = req.intact0]
    /\ pc' = "idle"
    /\ req' = << >>
    /\ UNCHANGED <<records, nextId, clock, pending, origin,
                  pc2, req2, reverified>>

upload_file ==
    \/ UploadBegin
    \/ UploadSizeCheck
    \/ UploadName
    \/ UploadWrite
    \/ UploadDigest
    \/ UploadPersist
    \/ UploadRefresh
    \/ UploadExcept

\* ---- list_files ----------------------------------------------------------------
\* query parameters <<skip, limit>>: the defaults skip=0, limit=100, and a
\* window that starts and ends inside the table
Windows == {<<0, 100>>, <<1, 1>>}

\* db.query(FileTransfer) has no ORDER BY: the database may hand the rows out
\* in any order, and in another one at the next query
RowOrders(rs) ==
    {s \in [1..Cardinality(rs) -> rs] :
        \A i \in DOMAIN s : \A j \in DOMAIN s : i # j => s[i] # s[j]}

\* .offset(skip).limit(limit).all()
OffsetLimit(rows, skip, limit) ==
    SubSeq(rows, skip + 1, IF skip + limit < Len(rows) THEN skip + limit ELSE Len(rows))

\* what the handler may return for a window <<skip, limit>>
ListOutcomes(rs, w) ==
    {[NoResult EXCEPT !.op = "list", !.status = 200, !.skip = w[1], !.limit = w[2],
                      !.rows = OffsetLimit(rows, w[1], w[2])] : rows \in RowOrders(rs)}

list_files ==
    /\ pc = "idle"
    /\ \E w \in Windows : \E out \in ListOutcomes(records, w) : result' = out
    /\ reverified' = FALSE
    /\ UNCHANGED <<files, records, nextId, clock, pc, req, pending, origin,
                  pc2, req2>>

\* ---- get_file_metadata ---------------------------------------------------------
GetOutcome(rs, file_id) ==
    IF ~HasRecord(rs, file_id)
    THEN HTTPError("get", file_id, 404, "File not found")
    ELSE [NoResult EXCEPT !.op = "get", !.file_id = file_id, !.status = 200,
                          !.record = {QueryFirst(rs, file_id)}]

get_file_metadata ==
    /\ pc = "idle"
    /\ \E file_id \in Ids : result' = GetOutcome(records, file_id)
    /\ reverified' = FALSE
    /\ UNCHANGED <<files, records, nextId, clock, pc, req, pending, origin,
                  pc2, req2>>

\* ---- download_file -------------------------------------------------------------
\* what the handler raises or returns; status 200 is the FileResponse object
DownloadOutcome(rs, fs, file_id) ==
    IF ~HasRecord(rs, file_id)
    THEN HTTPError("download", file_id, 404, "File not found")
    ELSE LET file_record == QueryFirst(rs, file_id)
             file_path == file_record.file_path
         IN  IF ~Exists(fs, file_path)
             THEN HTTPError("download", file_id, 404, "File not found on disk")
             ELSE LET current_checksum == calculate_checksum(fs, file_path)
                  IN  IF current_checksum # file_record.checksum
                      THEN [HTTPError("download", file_id, 500, "File integrity check failed")
                              EXCEPT !.stored_checksum = file_record.checksum,
                                     !.current_checksum = current_checksum]
                      ELSE [NoResult EXCEPT !.op = "download", !.file_id = file_id,
                                            !.status = 200, !.path = {file_path},
                                            !.record = {file_record},
                                            !.stored_checksum = file_record.checksum,
                                            !.current_checksum = current_checksum]

\* FileResponse(path=file_path, filename=file_record.filename, ...)
FileResponse(out) ==
    [file_id |-> out.file_id, path |-> CHOOSE p \in out.path : TRUE,
     checksum |-> out.stored_checksum]

\* download that puts a file that fails the check out of the way
download_file_quarantines ==
    /\ pc = "idle"
    /\ Cardinality(pending) < MaxPending
    /\ \E file_id \in Ids :
          LET out == DownloadOutcome(records, files, file_id)
          IN  /\ result' = out
              /\ pending' = IF out.status = 200
                            THEN pending \cup {FileResponse(out)} ELSE pending
              /\ files' = IF out.status = 500
                          THEN Unlink(files, QueryFirst(records, file_id).file_path)
                          ELSE files
    /\ reverified' = FALSE
    /\ UNCHANGED <<records, nextId, clock, pc, req, origin, pc2, req2>>

download_file ==
    /\ pc = "idle"
    /\ Cardinality(pending) < MaxPending
    /\ \E file_id \in Ids :
          LET out == DownloadOutcome(records, files, file_id)
          IN  /\ result' = out
              /\ pending' = IF out.status = 200
                            THEN pending \cup {FileResponse(out)} ELSE pending
    /\ reverified' = FALSE
    /\ UNCHANGED <<files, records, nextId, clock, pc, req, origin, pc2, req2>>

\* the event loop sends a FileResponse between two handlers: the file is
\* opened and read only now
SendOutcome(fs, r) ==
    IF ~Exists(fs, r.path)
    THEN [NoResult EXCEPT !.op = "send", !.file_id = r.file_id, !.status = 500,
                          !.error = "RuntimeError", !.detail = "Internal Server Error",
                          !.stored_checksum = r.checksum]
    ELSE [NoResult EXCEPT !.op = "send", !.file_id = r.file_id, !.status = 200,
                          !.bytes = {fs[r.path]}, !.stored_checksum = r.checksum]

SendFileResponse ==
    /\ pc = "idle"
    /\ \E r \in pending :
          /\ result' = SendOutcome(files, r)
          /\ pending' = pending \ {r}
    /\ reverified' = FALSE
    /\ UNCHANGED <<files, records, nextId, clock, pc, req, origin, pc2, req2>>

\* ---- delete_file ---------------------------------------------------------------
\* the lookup; a row that is found is kept in file_record
DeleteBegin ==
    /\ pc = "idle"
    /\ \E file_id \in Ids :
          IF ~HasRecord(records, file_id)
          THEN /\ result' = HTTPError("delete", file_id, 404, "File not found")
               /\ UNCHANGED <<pc, req>>
          ELSE /\ req' = [op |-> "delete", file_id |-> file_id,
                          file_record |-> QueryFirst(records, file_id),
                          file_existed |->
                              Exists(files, QueryFirst(records, file_id).file_path)]
               /\ pc' = "unlink"
               /\ result' = NoResult
    /\ reverified' = FALSE
    /\ UNCHANGED <<files, records, nextId, clock, pending, origin, pc2, req2>>

\* delete that leaves the file where it is and goes on to the row
DeleteUnlink_keeps_file ==
    /\ pc = "unlink"
    /\ pc' = "db_delete"
    /\ UNCHANGED <<files, records, nextId, clock, req, result, pending, origin,
                  pc2, req2, reverified>>

\* if file_path.exists(): file_path.unlink()
DeleteUnlink ==
    /\ pc = "unlink"
    /\ files' = IF Exists(files, req.file_record.file_path)
                THEN Unlink(files, req.file_record.file_path) ELSE files
    /\ pc' = "db_delete"
    /\ UNCHANGED <<records, nextId, clock, req, result, pending, origin,
                  pc2, req2, reverified>>

\* db.delete(file_record); db.commit(); return the message
\* (origin, being history of the live rows, forgets the row with it)
DeleteCommit ==
    /\ pc = "db_delete"
    /\ \/ /\ records' = DeleteRow(records, req.file_record.id)
          /\ result' = [NoResult EXCEPT !.op = "delete", !.file_id = req.file_id,
                                        !.status = 200, !.detail = "deleted successfully",
                                        !.path = {req.file_record.file_path},
                                        !.record = {req.file_record},
                                        !.file_existed = req.file_existed]
       \/ /\ records' = records
          /\ result' = [NoResult EXCEPT !.op = "delete", !.file_id = req.file_id,
                                        !.status = 500, !.error = "SQLAlchemyError",
                                        !.detail = "Internal Server Error",
                                        !.path = {req.file_record.file_path},
                                        !.record = {req.file_record},
                                        !.file_existed = req.file_existed]
    /\ origin' = [i \in DOMAIN origin \cap {r.id : r \in records'} |-> origin[i]]
    /\ pc' = "idle"
    /\ req' = << >>
    /\ UNCHANGED <<files, nextId, clock, pending, pc2, req2, reverified>>

delete_file ==
    \/ DeleteBegin
    \/ DeleteUnlink
    \/ DeleteCommit

\* ---- verify_file_integrity -----------------------------------------------------
\* verify written as download is: it raises on a mismatch
VerifyOutcome_raises(rs, fs, file_id) ==
    [DownloadOutcome(rs, fs, file_id) EXCEPT !.op = "verify"]

\* verify without the existence test: a missing file counts as invalid
VerifyOutcome_no_exists(rs, fs, file_id) ==
    IF ~HasRecord(rs, file_id)
    THEN HTTPError("verify", file_id, 404, "File not found")
    ELSE LET file_record == QueryFirst(rs, file_id)
             file_path == file_record.file_path
             current_checksum == IF Exists(fs, file_path)
                                 THEN calculate_checksum(fs, file_path) ELSE 0
         IN  [NoResult EXCEPT !.op = "verify", !.file_id = file_id, !.status = 200,
                               !.is_valid = (current_checksum = file_record.checksum),
                               !.stored_checksum = file_record.checksum,
                               !.current_checksum = current_checksum]

VerifyOutcome(rs, fs, file_id) ==
    IF ~HasRecord(rs, file_id)
    THEN HTTPError("verify", file_id, 404, "File not found")
    ELSE LET file_record == QueryFirst(rs, file_id)
             file_path == file_record.file_path
         IN  IF ~Exists(fs, file_path)
             THEN HTTPError("verify", file_id, 404, "File not found on disk")
             ELSE LET current_checksum == calculate_checksum(fs, file_path)
                      is_valid == current_checksum = file_record.checksum
                  IN  [NoResult EXCEPT !.op = "verify", !.file_id = file_id,
                                        !.status = 200, !.is_valid = is_valid,
                                        !.stored_checksum = file_record.checksum,
                                        !.current_checksum = current_checksum]

\* verify that repairs: on a mismatch it stores the current digest in the row
verify_file_integrity_repairs ==
    /\ pc = "idle"
    /\ \E file_id \in Ids :
          LET out == VerifyOutcome(records, files, file_id)
          IN  /\ result' = out
              /\ reverified' = (result.op = "verify" /\ result.file_id = file_id)
              /\ records' = IF out.status = 200 /\ ~out.is_valid
                            THEN {IF r.id = file_id
                                  THEN [r EXCEPT !.checksum = out.current_checksum]
                                  ELSE r : r \in records}
                            ELSE records
    /\ UNCHANGED <<files, nextId, clock, pc, req, pending, origin, pc2, req2>>

verify_file_integrity ==
    /\ pc = "idle"
    /\ \E file_id \in Ids :
          /\ result' = VerifyOutcome(records, files, file_id)
          /\ reverified' = (result.op = "verify" /\ result.file_id = file_id)
    /\ UNCHANGED <<files, records, nextId, clock, pc, req, pending, origin,
                  pc2, req2>>

Next ==
    \/ Tick
    \/ upload_file
    \/ list_files
    \/ get_file_metadata
    \/ download_file
    \/ SendFileResponse
    \/ delete_file
    \/ verify_file_integrity

Spec == Init /\ [][Next]_vars

\* ---- two worker processes ------------------------------------------------------
\* section 5 of the spec: requests are handled independently, one per task or
\* thread. With two worker processes the statements of two handlers interleave:
\* the operating system takes the processor from the handler that runs (pc,
\* req) and gives it to the handler of the other process (pc2, req2).
Switch ==
    /\ pc' = pc2
    /\ req' = req2
    /\ pc2' = pc
    /\ req2' = req
    /\ UNCHANGED <<files, records, nextId, clock, result, pending, origin,
                  reverified>>

NextWorkers ==
    \/ Tick
    \/ upload_file
    \/ Switch

SpecWorkers == Init /\ [][NextWorkers]_vars

(***************************************************************************)
(* Properties                                                              *)
(***************************************************************************)
\* an upload attempt has just ended with an error
FailedUpload == pc = "idle" /\ result.op = "upload" /\ result.status # 201

\* C1: after an upload attempt that fails, every persisted record still has a
\* file at its path whose digest equals the record's checksum (given that this
\* was so when the attempt began: nothing but the handlers touches the disk).
C1_FailedUploadKeepsRecordsIntact ==
    (FailedUpload /\ result.intact0) => Intact(records, files)

\* C2: a failed upload leaves no file at the path it wrote and no persisted
\* record that it created, whichever step failed.
C2_FailedUploadLeavesNothing ==
    FailedUpload =>
        /\ \A p \in result.path : ~Exists(files, p)
        /\ \A r \in result.record : ~HasRecord(records, r.id)

\* C3: an upload whose measured size exceeds MAX_FILE_SIZE ends with the
\* HTTPException of status 413, not with the generic 500 nor an unhandled error.
C3_OversizeIs413 ==
    (pc = "idle" /\ result.op = "upload" /\ \E b \in result.body : b.size > MAX_FILE_SIZE)
        => (result.status = 413 /\ result.error = "HTTPException")

\* upload_file is running
Uploading == pc \in {"size_check", "name", "write", "digest", "persist", "refresh", "except"}

\* C4: a body of exactly MAX_FILE_SIZE bytes passes the size check and goes on
\* to the write; a body of MAX_FILE_SIZE + 1 bytes or more never reaches the
\* write, and no step of its request changes the files under the upload root
\* or the persisted records.
C4_SizeBoundary ==
    [][/\ (pc = "size_check" /\ req.body.size <= MAX_FILE_SIZE)
            => pc' \in {"size_check", "name"}
       /\ (pc = "name" /\ req.body.size <= MAX_FILE_SIZE)
            => pc' \in {"name", "write"}
       /\ (Uploading /\ req.body.size > MAX_FILE_SIZE)
            => /\ pc' \in {"size_check", "except", "idle"}
               /\ files' = files
               /\ records' = records]_vars

\* an oversize upload has been rejected while the table holds a row whose body
\* was exactly MAX_FILE_SIZE bytes long
C4_Witness ==
    /\ pc = "idle" /\ result.op = "upload" /\ result.status # 201
    /\ \E b \in result.body : b.size = MAX_FILE_SIZE + 1
    /\ \E r \in records :
          r.file_size = MAX_FILE_SIZE /\ r.id \in DOMAIN origin
              /\ origin[r.id].size = MAX_FILE_SIZE

\* C5: when an upload returns successfully, the returned record is persisted
\* with status "completed" and its checksum is the digest of the bytes that
\* are at its path in the state right after the return.
C5_SuccessfulUploadChecksum ==
    (pc = "idle" /\ result.op = "upload" /\ result.status = 201) =>
        /\ result.record # {}
        /\ \A r \in result.record :
              /\ r \in records
              /\ r.status = "completed"
              /\ Exists(files, r.file_path)
              /\ r.checksum = Sha256(files[r.file_path])

\* a successful upload onto the path of an older record with other content
C5_Witness ==
    /\ pc = "idle" /\ result.op = "upload" /\ result.status = 201
    /\ \E r \in result.record : \E o \in records :
          o.id # r.id /\ o.file_path = r.file_path /\ o.checksum # r.checksum

\* the file of the live row id is on disk
FileOnDisk(id) ==
    HasRecord(records, id) /\ Exists(files, QueryFirst(records, id).file_path)

\* C6: round trip. For an id returned by a successful upload of body B, with
\* the record not deleted and its file on disk, verify answers is_valid = TRUE,
\* download passes its check, and the bytes sent are exactly B, whatever
\* other uploads completed in between.
C6_RoundTrip ==
    /\ (pc = "idle" /\ result.op = "verify" /\ result.file_id \in DOMAIN origin
            /\ FileOnDisk(result.file_id))
          => (result.status = 200 /\ result.is_valid)
    /\ (pc = "idle" /\ result.op = "download" /\ result.file_id \in DOMAIN origin
            /\ FileOnDisk(result.file_id))
          => result.status = 200
    /\ (result.op = "send" /\ result.status = 200 /\ result.file_id \in DOMAIN origin)
          => result.bytes = {origin[result.file_id]}

\* C7: the bytes a download serves for a record always have the digest that
\* is the record's checksum, under every interleaving of the send with the
\* other handlers.
C7_ServedBytesMatchChecksum ==
    (result.op = "send") => \A b \in result.bytes : Sha256(b) = result.stored_checksum

\* C8: for a persisted record whose file exists, verify returns a normal
\* result whose is_valid is TRUE exactly when the current digest equals the
\* stored checksum; when they differ, verify still returns normally, with
\* is_valid = FALSE and stored_checksum # current_checksum, while download of
\* the same record in the same state raises the 500 integrity failure.
C8_VerifyDownloadAsymmetry ==
    /\ \A id \in Ids :
          FileOnDisk(id) =>
              LET r == QueryFirst(records, id)
                  cur == Sha256(files[r.file_path])
                  v == VerifyOutcome(records, files, id)
                  d == DownloadOutcome(records, files, id)
              IN  /\ v.status = 200 /\ v.error = ""
                  /\ v.is_valid <=> (cur = r.checksum)
                  /\ v.stored_checksum = r.checksum /\ v.current_checksum = cur
                  /\ (cur # r.checksum) =>
                        /\ ~v.is_valid /\ v.stored_checksum # v.current_checksum
                        /\ d.status = 500 /\ d.error = "HTTPException"
                        /\ d.detail = "File integrity check failed"
    /\ (pc = "idle" /\ result.op = "verify")
          => result = VerifyOutcome(records, files, result.file_id)
    /\ (pc = "idle" /\ result.op = "download")
          => result = DownloadOutcome(records, files, result.file_id)

\* verify has just answered is_valid = FALSE for a record whose file exists
C8_Witness ==
    /\ pc = "idle" /\ result.op = "verify" /\ result.status = 200 /\ ~result.is_valid
    /\ FileOnDisk(result.file_id)

\* the row id is persisted and no file is at its path
FileMissing(id) ==
    HasRecord(records, id) /\ ~Exists(files, QueryFirst(records, id).file_path)

\* C9: when a record is persisted and the file at its path is absent, download
\* and verify both raise 404 "File not found on disk", which differs from what
\* they raise for an id without record; verify gives no is_valid result then.
C9_MissingFileIs404 ==
    /\ \A id \in Ids :
          FileMissing(id) =>
              LET v == VerifyOutcome(records, files, id)
                  d == DownloadOutcome(records, files, id)
              IN  /\ v.status = 404 /\ v.error = "HTTPException"
                  /\ v.detail = "File not found on disk"
                  /\ d.status = 404 /\ d.error = "HTTPException"
                  /\ d.detail = "File not found on disk"
                  /\ \A u \in Ids :
                        ~HasRecord(records, u) =>
                            /\ VerifyOutcome(records, files, u).status = 404
                            /\ DownloadOutcome(records, files, u).status = 404
                            /\ VerifyOutcome(records, files, u).detail # v.detail
                            /\ DownloadOutcome(records, files, u).detail # d.detail
    /\ (pc = "idle" /\ result.op \in {"verify", "download"} /\ FileMissing(result.file_id))
          => (result.status = 404 /\ result.detail = "File not found on disk")

\* verify has just raised the 404 of a missing file for a persisted record
C9_Witness ==
    /\ pc = "idle" /\ result.op = "verify" /\ result.status = 404
    /\ FileMissing(result.file_id)

\* what a delete that has just ended says about the table and the disk
DeleteAnswered ==
    /\ (pc = "idle" /\ result.op = "delete" /\ result.status = 200)
          => /\ ~HasRecord(records, result.file_id)
             /\ \A p \in result.path : ~Exists(files, p)
    /\ (pc = "idle" /\ result.op = "delete" /\ result.status = 404)
          => (~HasRecord(records, result.file_id) /\ result.detail = "File not found")
    /\ \A id \in Ids :
          (id < nextId /\ ~HasRecord(records, id)) =>
              /\ GetOutcome(records, id).status = 404
              /\ GetOutcome(records, id).detail = "File not found"
              /\ DownloadOutcome(records, files, id).status = 404
              /\ DownloadOutcome(records, files, id).detail = "File not found"
              /\ VerifyOutcome(records, files, id).status = 404
              /\ VerifyOutcome(records, files, id).detail = "File not found"

\* an id that was given out and whose row is gone never has a row again, and a
\* delete asked for such an id ends at the lookup with 404
DeletedStaysDeleted ==
    /\ \A id \in Ids :
          (id < nextId /\ ~HasRecord(records, id)) => ~HasRecord(records', id)
    /\ (pc = "idle" /\ pc' = "unlink") => HasRecord(records, req'.file_id)
    /\ (pc = "idle" /\ result' # result /\ result'.op = "delete")
          => (result'.status = 404 /\ ~HasRecord(records, result'.file_id))
    /\ (pc = "db_delete" /\ pc' = "idle" /\ result'.status = 200)
          => (~HasRecord(records', req.file_id)
                /\ ~Exists(files', req.file_record.file_path))

\* C10: a delete that succeeds, with its file present or absent, leaves neither
\* the record nor a file at the record's path; from then on get, download,
\* verify and delete of that id answer 404 "File not found", the id never
\* being given to a live record again.
C10_DeleteIsFinal == []DeleteAnswered /\ [][DeletedStaysDeleted]_vars

\* a delete has just succeeded for a record whose file was already absent
C10_Witness ==
    /\ pc = "idle" /\ result.op = "delete" /\ result.status = 200
    /\ ~result.file_existed

\* C11: path ownership. No two persisted records have the same path (the same
\* stored name under the upload root), whatever uploads were made.
C11_PathsAreOwned ==
    \A r1 \in records : \A r2 \in records :
        r1.id # r2.id => r1.file_path # r2.file_path

\* the steps of the upload state machine: the statement an upload is at, as
\* the state of section 4.4 that the request has reached
UploadState(p) ==
    CASE p = "size_check" -> "Receiving"
      [] p \in {"name", "write"} -> "SizeChecked"
      [] p = "digest" -> "Written"
      [] p = "persist" -> "Digested"
      [] p = "refresh" -> "Persisted"
      [] p = "except" -> "Failed"
      [] OTHER -> "None"

\* C13: an upload request moves Receiving, SizeChecked, Written, Digested,
\* Persisted in that order and can enter Failed only from a state before
\* Persisted: once the insert is committed the request neither fails nor has
\* its file rolled back.
C13_UploadStateMachine ==
    [][Uploading =>
         LET s == UploadState(pc)
             t == UploadState(pc')
         IN  /\ s = "Receiving" => t \in {"Receiving", "SizeChecked", "Failed"}
             /\ s = "SizeChecked" => t \in {"SizeChecked", "Written", "Failed"}
             /\ s = "Written" => t \in {"Written", "Digested", "Failed"}
             /\ s = "Digested" => t \in {"Digested", "Persisted", "Failed"}
             /\ s = "Persisted" =>
                   /\ t \in {"Persisted", "None"}
                   /\ files' = files
                   /\ (t = "None" => result'.status = 201)
             /\ s = "Failed" => t \in {"Failed", "None"}]_vars

\* a verify of the id that the last response was the verify of, answered while
\* neither the table nor the disk changes, gives that response again
VerifyAgain ==
    (/\ pc = "idle" /\ pc' = "idle"
     /\ result.op = "verify" /\ result'.op = "verify"
     /\ result'.file_id = result.file_id
     /\ files' = files /\ records' = records)
        => /\ result'.status = result.status
           /\ result'.error = result.error /\ result'.detail = result.detail
           /\ result'.is_valid = result.is_valid
           /\ result'.stored_checksum = result.stored_checksum
           /\ result'.current_checksum = result.current_checksum

\* C12: verify is idempotent. Consecutive verify calls of one id, with no
\* change of the file or the record between them, return the same result: the
\* same outcome, is_valid, stored_checksum and current_checksum.
C12_VerifyIdempotent == [][VerifyAgain]_vars

\* a verify that found a mismatch has been repeated and has answered again
C12_Witness ==
    /\ pc = "idle" /\ reverified
    /\ result.op = "verify" /\ result.status = 200 /\ ~result.is_valid

\* the rows in the one order of section 4.3: by id, ascending
IdAscending(rs) ==
    CHOOSE s \in RowOrders(rs) :
        \A i \in DOMAIN s : \A j \in DOMAIN s : i < j => s[i].id < s[j].id

\* C14: list returns the persisted records in one stable order, by id
\* ascending: list(skip, limit) is the elements at positions skip ..
\* skip+limit-1 of that order.
C14_ListInIdOrder ==
    (pc = "idle" /\ result.op = "list")
        => result.rows = OffsetLimit(IdAscending(records), result.skip, result.limit)

\* a step of list, get-metadata, download (the handler and the send) or verify
ReadStep ==
    /\ pc = "idle" /\ pc' = "idle"
    /\ result' # result \/ pending' # pending \/ reverified' # reverified
    /\ result'.op \in {"list", "get", "download", "send", "verify"}

\* C15: detect, never repair. List, get-metadata, download and verify leave the
\* record table and every file under the upload root as they are in all
\* outcomes: a mismatch or a missing file changes no checksum, file or row.
C15_ReadsChangeNothing ==
    [][ReadStep => (files' = files /\ records' = records /\ nextId' = nextId)]_vars

\* download has just raised the integrity failure, and the row still has the
\* checksum that the file on disk does not have
C15_Witness ==
    /\ pc = "idle" /\ result.op = "download" /\ result.status = 500
    /\ result.detail = "File integrity check failed"
    /\ FileOnDisk(result.file_id)
    /\ LET r == QueryFirst(records, result.file_id)
       IN  /\ r.checksum = result.stored_checksum
           /\ Sha256(files[r.file_path]) = result.current_checksum
           /\ r.checksum # result.current_checksum

\* while a delete runs its row is in the table, with no file at its path once
\* the unlink is done; a delete that ended leaves no file at the path of its row
DeleteOrderState ==
    /\ (pc \in {"unlink", "db_delete"}) => req.file_record \in records
    /\ (pc = "db_delete") => ~Exists(files, req.file_record.file_path)
    /\ (pc = "idle" /\ result.op = "delete" /\ result.status \in {200, 500})
          => \A p \in result.path : ~Exists(files, p)
    /\ (pc = "idle" /\ result.op = "delete" /\ result.status = 500)
          => result.record \subseteq records

\* a row leaves the table only when no file is at its path, before the step
\* and after it
DeleteOrderStep ==
    \A r \in records :
        r \notin records' =>
            (~Exists(files, r.file_path) /\ ~Exists(files', r.file_path))

\* C16: delete removes the file first and the record second. In no state
\* during or after a delete of record r, a delete whose record removal fails
\* included, is r absent from the table while its file is still on disk.
C16_FileFirstRecordSecond == []DeleteOrderState /\ [][DeleteOrderStep]_vars

\* the record removal of a delete failed after the file, which was there, was
\* removed
C16_Witness ==
    /\ pc = "idle" /\ result.op = "delete" /\ result.status = 500
    /\ result.file_existed
    /\ result.record \subseteq records

\* no statement of the handler of the other worker process has raised
OtherUnfailed == pc2 # "except" /\ "exc" \notin DOMAIN req2

\* C17: for every record, at the moment it is persisted size_bytes is the byte
\* length of the body that its own upload request carried and the length of
\* the file at its path, under every interleaving of concurrent uploads (here:
\* of uploads none of whose statements fails).
C17_SizeIsFileLength ==
    [][OtherUnfailed =>
          \A r \in records' \ records :
              /\ r.file_size = req.body.size
              /\ Exists(files', r.file_path)
              /\ files'[r.file_path].size = r.file_size]_vars

\* C18: delete is local to its record. A delete of record r, successful or
\* failed, leaves every other persisted record unchanged and the file of every
\* other persisted record present with unchanged bytes, so a record that
\* verified as valid before the delete of r verifies as valid after it.
C18_DeleteIsLocal ==
    [][(pc \in {"unlink", "db_delete"}) =>
          \A o \in records :
              o.id # req.file_id =>
                  /\ o \in records'
                  /\ Exists(files, o.file_path) =>
                        /\ Exists(files', o.file_path)
                        /\ files'[o.file_path] = files[o.file_path]
                  /\ VerifyOutcome(records, files, o.id).is_valid
                        => VerifyOutcome(records', files', o.id).is_valid]_vars
====
